---- MODULE Spec2Model ----
(***************************************************************************)
(* Model of watch_url.py: one watch() loop per URL, the shared notify()    *)
(* lock, the signal handler log_exit and the main flow that runs watch()   *)
(* inline for one URL or in daemon threads for several.                    *)
(*                                                                         *)
(* Library behaviour the code relies on:                                   *)
(*  - urlopen() returns a response only for a 2xx status; for any other    *)
(*    status it raises HTTPError, and for a transport failure it raises    *)
(*    URLError (or another OSError), which is not an HTTPError;            *)
(*  - f.headers[name] is None when the header is absent;                   *)
(*  - subprocess.run() returns a return code when the command was          *)
(*    started and raises OSError when it cannot be started;                *)
(*  - a signal handler runs on the main thread, on top of whatever the     *)
(*    main thread was doing, which resumes only when the handler returns;  *)
(*  - threading.Lock is not reentrant.                                     *)
(***************************************************************************)
EXTENDS Integers, Sequences, FiniteSets, TLC

\* ---- bounds of the model ----
\* polls per watcher, and signals delivered to the process
MaxPolls == 2
MaxSignals == 2

\* ---- program constants ----
ConfirmDelay == 10
ClockCap == ConfirmDelay + 1

\* None for a header or validator; an Optional[float] is <<>> or <<x>>
None == "None"
Delays == {5, 11}

\* Header values and bodies a server may answer with.  The code only tests
\* header values for equality, so the baseline answers with the first value
\* of each kind and later polls may repeat it or answer with another one.
ETags == {"a1", "a2"}
LastModifieds == {"t1", "t2"}
Bodies == {"b0", "b1"}
BaseETags == {"a1"}
BaseLastModifieds == {"t1"}
BaseBodies == {"b0"}

\* status "transport" stands for a fetch that fails below HTTP (DNS, connect,
\* timeout, or a connection that breaks while the body is read)
ErrStatuses == {204, 304, 500}
NoResp == [status |-> 0, etag |-> None, lm |-> None, body |-> None]
Transport == [status |-> -1, etag |-> None, lm |-> None, body |-> None]

OkResponses(es, ls, bs) ==
  [status : {200}, etag : es \cup {None}, lm : ls \cup {None}, body : bs]

ErrResponses ==
  [status : ErrStatuses, etag : {None}, lm : {None}, body : {None}] \cup {Transport}

\* The runs of the model: one URL, whose server answers with every
\* combination of headers and bodies; or two URLs in threads, whose servers
\* answer with an ETag and no Last-Modified (each URL with its own
\* baseline ETag and body).
UrlCounts == {1, 2}
W == 1..2

BaselineResponses(k, w) ==
  IF k = 1
  THEN OkResponses(BaseETags, BaseLastModifieds, BaseBodies) \cup ErrResponses
  ELSE [status : {200}, etag : {IF w = 1 THEN "a1" ELSE "a2"}, lm : {None},
        body : {IF w = 1 THEN "b0" ELSE "b1"}] \cup ErrResponses

PollResponses(k, w) ==
  IF k = 1
  THEN OkResponses(ETags, LastModifieds, Bodies) \cup ErrResponses
  ELSE OkResponses(ETags, {}, Bodies) \cup ErrResponses

Free == <<"free", 0>>
Thread(w) == <<"watch", w>>
Handler(k) == <<"log_exit", k>>

NotifySites == {"n_exit", "n_watching", "n_changed", "n_error"}
RunOutcomes == {"ok", "nonzero", "oserror"}

VARIABLES n, delay, mpc, mi, wpc, nstage, req, etag, last_modified, md5,
          send_confirmation_at, clock, resp, changed, hashed, polls, sent,
          notify_lock, hstack, exited, exitCode, exitSent, exc

vars == <<n, delay, mpc, mi, wpc, nstage, req, etag, last_modified, md5,
          send_confirmation_at, clock, resp, changed, hashed, polls, sent,
          notify_lock, hstack, exited, exitCode, exitSent, exc>>

mainVars == <<mpc, mi>>
watchVars == <<req, etag, last_modified, md5, send_confirmation_at, clock,
               resp, changed, hashed, polls>>
procVars == <<exited, exitCode>>

Urls == 1..n

Min(a, b) == IF a < b THEN a ELSE b

\* get_md5: the digest of a body (distinct bodies of the model have
\* distinct digests)
get_md5(b) == IF b = "b0" THEN "D0" ELSE IF b = "b1" THEN "D1" ELSE "D" \o b

\* urlopen: what the call raises for a response
Raises(r) ==
  IF r.status = -1 THEN "URLError"
  ELSE IF r.status >= 200 /\ r.status < 300 THEN "none"
  ELSE "HTTPError"

\* lines 93-100: the change decision on a 200 response
EtagDiffers(r, e) == r.etag # None /\ r.etag # e
LastModifiedDiffers(r, lm) == r.lm # None /\ r.lm # lm
DigestRead(r, e, lm) == ~(EtagDiffers(r, e) \/ LastModifiedDiffers(r, lm))
\* variants of the decision with one of its tests left out
EvaluateDigestOnly(r, e, lm, m) == m # get_md5(r.body)
EvaluateHeadersOnly(r, e, lm, m) ==
  EtagDiffers(r, e) \/ LastModifiedDiffers(r, lm)

Evaluate(r, e, lm, m) ==
  \/ EtagDiffers(r, e)
  \/ LastModifiedDiffers(r, lm)
  \/ (DigestRead(r, e, lm) /\ m # get_md5(r.body))

\* the exception that ended a thread
NoExc == <<"none", 0>>
HTTPError(code) == <<"HTTPError", code>>
URLError == <<"URLError", 0>>
OSError == <<"OSError", 0>>
Raised(r) == IF Raises(r) = "HTTPError" THEN HTTPError(r.status) ELSE URLError

NoSent == [exiting |-> 0, watching |-> 0, changed |-> 0, error |-> 0]

Init ==
  /\ n \in UrlCounts
  /\ delay \in Delays
  /\ mpc = "start"
  /\ mi = 1
  /\ wpc = [w \in W |-> "idle"]
  /\ nstage = [w \in W |-> "out"]
  /\ req = [w \in W |-> [inm |-> None, ims |-> None]]
  /\ etag = [w \in W |-> None]
  /\ last_modified = [w \in W |-> None]
  /\ md5 = [w \in W |-> None]
  /\ send_confirmation_at = [w \in W |-> <<>>]
  /\ clock = [w \in W |-> 0]
  /\ resp = [w \in W |-> NoResp]
  /\ changed = [w \in W |-> FALSE]
  /\ hashed = [w \in W |-> FALSE]
  /\ polls = [w \in W |-> 0]
  /\ sent = [w \in W |-> NoSent]
  /\ notify_lock = Free
  /\ hstack = <<>>
  /\ exited = FALSE
  /\ exitCode = 0
  /\ exitSent = 0
  /\ exc = [w \in W |-> NoExc]

\* the thread of watcher w can take a step: the process is alive, and when
\* watch() runs inline on the main thread no signal handler is on top of it
Runnable(w) == ~exited /\ w \in Urls /\ (n = 1 => hstack = <<>>)
MainRunnable == ~exited /\ hstack = <<>>

\* an exception in any thread that ends the whole process
UncaughtEndsProcess(w, e) ==
  /\ wpc' = [wpc EXCEPT ![w] = "crashed"]
  /\ exc' = [exc EXCEPT ![w] = e]
  /\ exited' = TRUE
  /\ exitCode' = 1

\* exception e leaves watch(): the thread ends; inline, the process ends
Uncaught(w, e) ==
  /\ wpc' = [wpc EXCEPT ![w] = "crashed"]
  /\ exc' = [exc EXCEPT ![w] = e]
  /\ exited' = (n = 1)
  /\ exitCode' = IF n = 1 THEN 1 ELSE exitCode

Goto(w, p) ==
  /\ wpc' = [wpc EXCEPT ![w] = p]
  /\ UNCHANGED <<procVars, exc>>

Call(w, site) ==
  /\ wpc' = [wpc EXCEPT ![w] = site]
  /\ nstage' = [nstage EXCEPT ![w] = "wait"]
  /\ UNCHANGED <<procVars, exc>>

\* ---- main flow, lines 140-151 ----

\* line 141: one URL, watch() runs inline on the main thread
StartInline ==
  /\ MainRunnable /\ mpc = "start" /\ n = 1
  /\ mpc' = "inline"
  /\ wpc' = [wpc EXCEPT ![1] = "baseline"]
  /\ UNCHANGED <<n, delay, mi, nstage, watchVars, sent, notify_lock, hstack,
                 procVars, exitSent, exc>>

\* line 141 returns
InlineReturn ==
  /\ MainRunnable /\ mpc = "inline" /\ wpc[1] = "done"
  /\ mpc' = "end"
  /\ UNCHANGED <<n, delay, mi, wpc, nstage, watchVars, sent, notify_lock,
                 hstack, procVars, exitSent, exc>>

\* lines 144-148: start one daemon thread per URL
Spawn ==
  /\ MainRunnable /\ mpc \in {"start", "spawn"} /\ n > 1
  /\ wpc' = [wpc EXCEPT ![mi] = "baseline"]
  /\ mpc' = IF mi = n THEN "join" ELSE "spawn"
  /\ mi' = IF mi = n THEN 1 ELSE mi + 1
  /\ UNCHANGED <<n, delay, nstage, watchVars, sent, notify_lock, hstack,
                 procVars, exitSent, exc>>

\* a join that does not wait
JoinedAlways(p) == TRUE

\* line 150: t.join() returns for a thread that has ended, by a return of
\* watch() or by an exception
Joined(p) == p \in {"done", "crashed"}

\* lines 149-150: t.join() returns once the thread has ended
Join ==
  /\ MainRunnable /\ mpc = "join"
  /\ Joined(wpc[mi])
  /\ mpc' = IF mi = n THEN "end" ELSE "join"
  /\ mi' = IF mi = n THEN mi ELSE mi + 1
  /\ UNCHANGED <<n, delay, wpc, nstage, watchVars, sent, notify_lock, hstack,
                 procVars, exitSent, exc>>

\* line 151 and the end of the script
ProcessExit ==
  /\ MainRunnable /\ mpc = "end"
  /\ exited' = TRUE
  /\ exitCode' = 0
  /\ UNCHANGED <<n, delay, mainVars, wpc, nstage, watchVars, sent,
                 notify_lock, hstack, exitSent, exc>>

\* ---- watch(), lines 56-113 ----

\* line 60: the baseline urlopen; resp is the open response f
BaselineFetch(w) ==
  /\ Runnable(w) /\ wpc[w] = "baseline"
  /\ \E r \in BaselineResponses(n, w) :
       IF Raises(r) = "none"
       THEN resp' = [resp EXCEPT ![w] = r] /\ Goto(w, "base_eval")
       ELSE UNCHANGED resp /\ Uncaught(w, Raised(r))
  /\ UNCHANGED <<n, delay, mainVars, nstage, req, etag, last_modified, md5,
                 send_confirmation_at, clock, changed, hashed, polls, sent,
                 notify_lock, hstack, exitSent>>

\* request headers that leave out If-Modified-Since
add_header_etag_only(r) == [inm |-> r.etag, ims |-> None]

\* lines 65-74: req.add_header('If-None-Match', ...) for an ETag header and
\* req.add_header('If-Modified-Since', ...) for a Last-Modified header
add_header(r) == [inm |-> r.etag, ims |-> r.lm]

\* an assignment to a name that all watchers share
StoreShared(f, w, v) == [u \in DOMAIN f |-> v]

\* lines 59-75: req, etag, last_modified and md5 are locals of watch(): an
\* assignment binds the name in the frame of watcher w only
Store(f, w, v) == [f EXCEPT ![w] = v]

\* lines 61-80: abort on a status other than 200, else record the validators
BaselineEvaluate(w) ==
  /\ Runnable(w) /\ wpc[w] = "base_eval"
  /\ LET r == resp[w] IN
     IF r.status # 200
     THEN /\ Call(w, "n_exit")
          /\ UNCHANGED <<req, etag, last_modified, md5, send_confirmation_at,
                         clock, resp, hashed>>
     ELSE /\ req' = Store(req, w, add_header(r))
          /\ etag' = Store(etag, w, r.etag)
          /\ last_modified' = Store(last_modified, w, r.lm)
          /\ md5' = Store(md5, w, get_md5(r.body))
          /\ hashed' = [hashed EXCEPT ![w] = TRUE]
          /\ resp' = [resp EXCEPT ![w] = NoResp]
          /\ clock' = [clock EXCEPT ![w] = 0]
          /\ send_confirmation_at' =
               [send_confirmation_at EXCEPT ![w] = <<ConfirmDelay>>]
          /\ Goto(w, "sleep")
          /\ UNCHANGED nstage
  /\ UNCHANGED <<n, delay, mainVars, changed, polls, sent, notify_lock,
                 hstack, exitSent>>

\* a confirmation that is due on every wake-up
ConfirmationDueAlways(at, now) == TRUE

\* line 83: send_confirmation_at is not None and send_confirmation_at <
\* time.time()
ConfirmationDue(at, now) == at # <<>> /\ at[1] < now

\* lines 81-86: sleep, then the one-shot liveness check
PollSleep(w) ==
  /\ Runnable(w) /\ wpc[w] = "sleep"
  /\ polls[w] < MaxPolls
  /\ clock' = [clock EXCEPT ![w] = Min(clock[w] + delay, ClockCap)]
  /\ IF ConfirmationDue(send_confirmation_at[w], clock'[w])
     THEN Call(w, "n_watching")
     ELSE Goto(w, "fetch") /\ UNCHANGED nstage
  /\ UNCHANGED <<n, delay, mainVars, req, etag, last_modified, md5,
                 send_confirmation_at, resp, changed, hashed, polls, sent,
                 notify_lock, hstack, exitSent>>

\* the except clause without its test for 304
ExceptAlwaysNotifies(code) == "n_error"

\* lines 106-111: where the except clause goes on for an HTTPError
ExceptHTTPError(code) == IF code = 304 THEN "sleep" ELSE "n_error"

\* line 88 and the except clause, lines 106-111; for an HTTPError resp is
\* the error e, which carries the status
PollFetch(w) ==
  /\ Runnable(w) /\ wpc[w] = "fetch"
  /\ polls' = [polls EXCEPT ![w] = @ + 1]
  /\ hashed' = [hashed EXCEPT ![w] = FALSE]
  /\ \E r \in PollResponses(n, w) :
       /\ resp' = [resp EXCEPT ![w] = IF Raises(r) = "URLError" THEN NoResp ELSE r]
       /\ CASE Raises(r) = "none" -> Goto(w, "eval") /\ UNCHANGED nstage
            [] Raises(r) = "HTTPError" ->
                 IF ExceptHTTPError(r.status) \in NotifySites
                 THEN Call(w, ExceptHTTPError(r.status))
                 ELSE Goto(w, ExceptHTTPError(r.status)) /\ UNCHANGED nstage
            [] OTHER -> Uncaught(w, URLError) /\ UNCHANGED nstage
  /\ UNCHANGED <<n, delay, mainVars, req, etag, last_modified, md5,
                 send_confirmation_at, clock, changed, sent, notify_lock,
                 hstack, exitSent>>

\* lines 89-105 on the open response
PollEvaluate(w) ==
  /\ Runnable(w) /\ wpc[w] = "eval"
  /\ LET r == resp[w] IN
     IF r.status # 200
     THEN /\ Goto(w, "sleep")
          /\ resp' = [resp EXCEPT ![w] = NoResp]
          /\ UNCHANGED <<nstage, changed, hashed, last_modified>>
     ELSE /\ changed' = [changed EXCEPT ![w] =
                           Evaluate(r, etag[w], last_modified[w], md5[w])]
          /\ hashed' = [hashed EXCEPT ![w] =
                           DigestRead(r, etag[w], last_modified[w])]
          /\ IF changed'[w]
             THEN /\ Call(w, "n_changed")
                  /\ UNCHANGED <<resp, last_modified>>
             ELSE /\ last_modified' = [last_modified EXCEPT ![w] = r.lm]
                  /\ resp' = [resp EXCEPT ![w] = NoResp]
                  /\ Goto(w, "sleep")
                  /\ UNCHANGED nstage
  /\ UNCHANGED <<n, delay, mainVars, req, etag, md5, send_confirmation_at,
                 clock, polls, sent, notify_lock, hstack, exitSent>>

\* ---- notify() and run(), lines 39-53 ----

\* a lock that lets every thread in
CanEnterAlways(lock) == TRUE

\* line 41: "with notify_lock" lets a thread in when the lock is free
CanEnter(lock) == lock = Free

\* line 41: enter the with block once the lock is free
NotifyAcquire(w) ==
  /\ Runnable(w) /\ wpc[w] \in NotifySites /\ nstage[w] = "wait"
  /\ CanEnter(notify_lock)
  /\ notify_lock' = Thread(w)
  /\ nstage' = [nstage EXCEPT ![w] = "run"]
  /\ UNCHANGED <<n, delay, mainVars, wpc, watchVars, sent, hstack, procVars,
                 exitSent, exc>>

Count(w, site) ==
  [sent EXCEPT ![w] =
     CASE site = "n_exit" -> [@ EXCEPT !.exiting = @ + 1]
       [] site = "n_watching" -> [@ EXCEPT !.watching = @ + 1]
       [] site = "n_changed" -> [@ EXCEPT !.changed = @ + 1]
       [] OTHER -> [@ EXCEPT !.error = @ + 1]]

\* where watch() goes on after notify() returned at a call site
Continue(site) ==
  CASE site = "n_exit" -> "done"
    [] site = "n_watching" -> "fetch"
    [] site = "n_changed" -> "done"
    [] OTHER -> "sleep"

\* lines 42, 47-53: the external action runs and notify() leaves the with
\* block; then the caller's next statements up to its next blocking call
\* (line 64; line 86; lines 103-105 and 113; line 111)
NotifyRun(w) ==
  /\ Runnable(w) /\ wpc[w] \in NotifySites /\ nstage[w] = "run"
  /\ notify_lock' = Free
  /\ nstage' = [nstage EXCEPT ![w] = "out"]
  /\ \E o \in RunOutcomes :
       /\ IF o = "oserror"
          THEN /\ Uncaught(w, OSError)
               /\ resp' = [resp EXCEPT ![w] = NoResp]
               /\ UNCHANGED <<sent, send_confirmation_at, last_modified>>
          ELSE /\ sent' = Count(w, wpc[w])
               /\ Goto(w, Continue(wpc[w]))
               /\ send_confirmation_at' =
                    IF wpc[w] = "n_watching"
                    THEN [send_confirmation_at EXCEPT ![w] = <<>>]
                    ELSE send_confirmation_at
               /\ last_modified' =
                    IF wpc[w] = "n_changed"
                    THEN [last_modified EXCEPT ![w] = resp[w].lm]
                    ELSE last_modified
               /\ resp' = IF wpc[w] = "n_watching" THEN resp
                          ELSE [resp EXCEPT ![w] = NoResp]
  /\ UNCHANGED <<n, delay, mainVars, req, etag, md5, clock, changed, hashed,
                 polls, hstack, exitSent>>

\* ---- log_exit(), lines 21-25 ----

\* a SIGINT or SIGTERM is delivered: log_exit starts on the main thread
Signal ==
  /\ ~exited /\ Len(hstack) < MaxSignals
  /\ hstack' = Append(hstack, "wait")
  /\ UNCHANGED <<n, delay, mainVars, wpc, nstage, watchVars, sent,
                 notify_lock, procVars, exitSent, exc>>

\* line 24 -> line 41: the innermost handler takes the lock
HandlerAcquire ==
  /\ ~exited /\ hstack # <<>> /\ hstack[Len(hstack)] = "wait"
  /\ CanEnter(notify_lock)
  /\ notify_lock' = Handler(Len(hstack))
  /\ hstack' = [hstack EXCEPT ![Len(hstack)] = "run"]
  /\ UNCHANGED <<n, delay, mainVars, wpc, nstage, watchVars, sent, procVars,
                 exitSent, exc>>

\* lines 42 and 25: the external action runs, then sys.exit(0); an OSError
\* of subprocess.run leaves the handler and ends the main thread instead
HandlerRun ==
  /\ ~exited /\ hstack # <<>> /\ hstack[Len(hstack)] = "run"
  /\ notify_lock' = Free
  /\ hstack' = [hstack EXCEPT ![Len(hstack)] = "out"]
  /\ exited' = TRUE
  /\ \E o \in RunOutcomes :
       /\ exitSent' = IF o = "oserror" THEN exitSent ELSE exitSent + 1
       /\ exitCode' = IF o = "oserror" THEN 1 ELSE 0
  /\ UNCHANGED <<n, delay, mainVars, wpc, nstage, watchVars, sent, exc>>

Next ==
  \/ StartInline
  \/ InlineReturn
  \/ Spawn
  \/ Join
  \/ ProcessExit
  \/ \E w \in W : BaselineFetch(w)
  \/ \E w \in W : BaselineEvaluate(w)
  \/ \E w \in W : PollSleep(w)
  \/ \E w \in W : PollFetch(w)
  \/ \E w \in W : PollEvaluate(w)
  \/ \E w \in W : NotifyAcquire(w)
  \/ \E w \in W : NotifyRun(w)
  \/ Signal
  \/ HandlerAcquire
  \/ HandlerRun

Spec == Init /\ [][Next]_vars

TypeOK ==
  /\ n \in UrlCounts
  /\ \A w \in W : polls[w] \in 0..MaxPolls
  /\ Len(hstack) <= MaxSignals

\* the same steps, with the threads scheduled fairly: a thread that can take
\* a step takes one, and a handler that keeps finding the lock free gets it
FairSpec ==
  /\ Spec
  /\ \A w \in W : WF_vars(NotifyAcquire(w)) /\ WF_vars(NotifyRun(w))
  /\ SF_vars(HandlerAcquire)
  /\ WF_vars(HandlerRun)

\* ---- vocabulary of the properties ----

Baselining(w) == wpc[w] \in {"baseline", "base_eval"}
Polling(w) == wpc[w] \in {"sleep", "fetch", "eval", "n_watching", "n_error",
                          "n_changed"}
Done(w) == wpc[w] = "done"
Validators(w) == <<etag[w], last_modified[w], md5[w]>>
\* watcher w leaves position p in this step
Leaves(w, p) == wpc[w] = p /\ wpc'[w] # p
Running == {w \in W : nstage[w] = "run"}
HandlersRunning == {k \in 1..Len(hstack) : hstack[k] = "run"}

\* ---- C1 ----
\* C1: a poll that returns 200 with an ETag different from the ETag recorded
\* at baseline is evaluated as Changed (changed = True, and the loop goes on
\* to the "Site changed" notification), whatever its Last-Modified header
\* and its body are.
C1_EtagDiffersIsChanged ==
  [][\A w \in W :
       (/\ Leaves(w, "eval")
        /\ resp[w].status = 200
        /\ resp[w].etag # None
        /\ resp[w].etag # req[w].inm)
       => (changed'[w] /\ wpc'[w] = "n_changed")]_vars

\* a Changed outcome decided by the ETag alone: the body has the stored
\* digest and no Last-Modified differs
C1_Witness ==
  \E w \in W :
    /\ wpc[w] = "n_changed"
    /\ resp[w].etag # None /\ resp[w].etag # req[w].inm
    /\ get_md5(resp[w].body) = md5[w]
    /\ resp[w].lm \in {None, last_modified[w]}

\* ---- C2 ----
\* C2: when the watcher is through with a Changed outcome it has sent exactly
\* one "Site changed" notification and is Done; and a Done watcher takes no
\* further step: it stays Done, fetches no more and notifies no more.
C2_ChangedNotifiesOnceThenDone ==
  [][\A w \in W :
       /\ Leaves(w, "n_changed") => (Done(w)' /\ sent'[w].changed = 1)
       /\ Done(w) => (Done(w)' /\ polls'[w] = polls[w] /\ sent'[w] = sent[w])]_vars

\* ---- C3 ----
\* C3: a poll answered with 304 is Unchanged: the loop goes back to its sleep
\* without reading a body, without a notification, and with the stored ETag,
\* Last-Modified and digest as they were.
C3_NotModifiedIsUnchanged ==
  [][\A w \in W :
       (Leaves(w, "fetch") /\ resp'[w].status = 304)
       => (/\ wpc'[w] = "sleep"
           /\ nstage'[w] = "out"
           /\ ~hashed'[w]
           /\ sent'[w] = sent[w]
           /\ Validators(w)' = Validators(w))]_vars

\* a watcher back in its sleep after a 304 on its second poll
C3_Witness ==
  \E w \in W :
    /\ wpc[w] = "sleep" /\ resp[w].status = 304 /\ polls[w] >= 2
    /\ md5[w] # None

\* ---- C4 ----
\* C4: on a 200 response whose ETag and Last-Modified headers are each absent
\* or equal to the stored value, the digest decides: equal to the stored
\* digest, the poll is Unchanged (no notification, back to the sleep);
\* different, it is Changed.
C4_DigestDecides ==
  [][\A w \in W :
       (/\ Leaves(w, "eval")
        /\ resp[w].status = 200
        /\ resp[w].etag \in {None, etag[w]}
        /\ resp[w].lm \in {None, last_modified[w]})
       => (/\ hashed'[w]
           /\ changed'[w] <=> (get_md5(resp[w].body) # md5[w])
           /\ changed'[w] => wpc'[w] = "n_changed"
           /\ ~changed'[w] => (wpc'[w] = "sleep" /\ sent'[w] = sent[w]))]_vars

\* a second poll found Changed by its digest, with no header in the response
C4_Witness ==
  \E w \in W :
    /\ wpc[w] = "n_changed" /\ hashed[w] /\ polls[w] = 2
    /\ resp[w].etag = None /\ resp[w].lm = None
    /\ get_md5(resp[w].body) # md5[w]

\* ---- C5 ----
\* C5: a watcher whose baseline fetch yielded an HTTP status other than 200
\* ends Done, having sent exactly one "exiting" notification, and never polls.
BaselineStatusError(w) ==
  /\ polls[w] = 0
  /\ \/ wpc[w] = "crashed" /\ exc[w][1] = "HTTPError"
     \/ wpc[w] = "base_eval" /\ resp[w].status # 200
     \/ wpc[w] \in {"n_exit", "done"}
C5_BaselineErrorNotifiesAndStops ==
  \A w \in W :
    BaselineStatusError(w) =>
      /\ wpc[w] # "crashed"
      /\ Done(w) => sent[w].exiting = 1

\* ---- C6 ----
\* C6: a transport failure of a poll fetch never ends the watcher.
C6_TransportFailureIsTransient ==
  \A w \in W : ~(polls[w] >= 1 /\ wpc[w] = "crashed" /\ exc[w] = URLError)

\* ---- C7 ----
\* C7: a poll answered with a status other than 200 and 304 leaves the watcher
\* in Polling, back at its sleep, with the validators as they were and no
\* "Site changed" notification.
C7_StatusErrorIsTransient ==
  [][\A w \in W :
       (\/ Leaves(w, "n_error")
        \/ Leaves(w, "eval") /\ resp[w].status # 200)
       => (/\ wpc'[w] = "sleep"
           /\ Validators(w)' = Validators(w)
           /\ sent'[w].changed = sent[w].changed)]_vars

\* ---- C8 ----
\* C8: at most one external action of notify() executes at a time, over all
\* watcher threads and signal handlers.
C8_OneNotificationAtATime ==
  Cardinality(Running) + Cardinality(HandlersRunning) <= 1

\* one notification executes while another watcher and a signal handler wait
C8_Witness ==
  /\ \E w \in W : nstage[w] = "run"
  /\ \E w \in W : nstage[w] = "wait"
  /\ hstack # <<>> /\ hstack[Len(hstack)] = "wait"

\* ---- C9 ----
\* C9: once a signal has been delivered, the "Watcher exiting." notification
\* is eventually executed and the process exits with code 0.
C9_SignalNotifiesAndExits ==
  (hstack # <<>>) ~> (exited /\ exitCode = 0 /\ exitSent >= 1)

\* ---- C10 ----
\* C10: no failure of the external action ends a watcher: whatever run()
\* meets, the watcher goes on from notify() to the step that follows the call.
C10_NotifyFailureNeverStopsWatcher ==
  [][\A w \in W :
       (wpc[w] \in NotifySites /\ nstage[w] = "run" /\ wpc'[w] # wpc[w])
       => (wpc'[w] = Continue(wpc[w]) /\ exc'[w] = NoExc)]_vars

\* ---- C11 ----
\* C11: with several URLs, the main flow is past its joins (at line 151) only
\* when every URL has a watcher thread that was started and has ended; so
\* while a watcher is Baselining or Polling the main flow is not past them.
Terminated(w) == wpc[w] \in {"done", "crashed"}
C11_EndOnlyAfterAllWatchers ==
  n > 1 =>
    /\ mpc \in {"join", "end"} => \A w \in Urls : wpc[w] # "idle"
    /\ mpc = "end" => \A w \in Urls : Terminated(w)
    /\ (\E w \in Urls : Baselining(w) \/ Polling(w)) => mpc # "end"

\* the main flow is past the joins after one watcher reported a change and
\* the other was ended by an exception
C11_Witness ==
  /\ n > 1 /\ mpc = "end"
  /\ \E w \in Urls : Done(w) /\ sent[w].changed = 1
  /\ \E w \in Urls : wpc[w] = "crashed"

\* ---- C12 ----
\* C12: with several URLs, the step in which one watcher ends (a change
\* reported, a baseline abort, or an exception) changes nothing of any other
\* watcher, leaves the process running and does not leave the lock with the
\* ended watcher, so that the others can go on.
Local(w) == <<wpc[w], nstage[w], req[w], etag[w], last_modified[w], md5[w],
              send_confirmation_at[w], clock[w], resp[w], changed[w],
              hashed[w], polls[w], sent[w], exc[w]>>
C12_OneTerminationLeavesOthersAlone ==
  [][\A w \in W :
       (n > 1 /\ ~Terminated(w) /\ Terminated(w)')
       => (/\ \A v \in W \ {w} : Local(v)' = Local(v)
           /\ ~exited' /\ mpc' = mpc
           /\ notify_lock' # Thread(w))]_vars

\* one watcher was ended by an exception, then the other polled twice and
\* is still polling
C12_Witness ==
  /\ n > 1 /\ ~exited
  /\ \E w \in Urls, v \in Urls :
       /\ wpc[w] = "crashed" /\ polls[w] = 0
       /\ wpc[v] = "sleep" /\ polls[v] = 2

\* ---- C13 ----
\* C13: a baseline 200 records the ETag iff the response has one, the
\* Last-Modified iff it has one, and always a digest of the body; the request
\* gets If-None-Match and If-Modified-Since for exactly the recorded ones, and
\* the request of every later poll is that same request.
C13_BaselineRecordsAndRequestCarries ==
  [][\A w \in W :
       /\ (Leaves(w, "base_eval") /\ resp[w].status = 200)
          => (/\ (etag'[w] # None) <=> (resp[w].etag # None)
              /\ etag'[w] = resp[w].etag
              /\ (last_modified'[w] # None) <=> (resp[w].lm # None)
              /\ last_modified'[w] = resp[w].lm
              /\ md5'[w] = get_md5(resp[w].body) /\ md5'[w] # None
              /\ (req'[w].inm # None) <=> (etag'[w] # None)
              /\ req'[w].inm = etag'[w]
              /\ (req'[w].ims # None) <=> (last_modified'[w] # None)
              /\ req'[w].ims = last_modified'[w])
       /\ (Polling(w) \/ Done(w)) => req'[w] = req[w]]_vars

\* the second poll request of a watcher whose baseline had an ETag and no
\* Last-Modified is about to be sent
C13_Witness ==
  \E w \in Urls :
    /\ wpc[w] = "fetch" /\ polls[w] = 1
    /\ req[w].inm # None /\ req[w].ims = None
    /\ etag[w] # None /\ last_modified[w] = None /\ md5[w] # None

\* ---- C14 ----
\* C14: a poll that ends Unchanged leaves the stored ETag and digest as they
\* were; the stored Last-Modified becomes the response's value when the
\* response has the header and stays as it was when it has none.
C14_UnchangedKeepsAbsentLastModified ==
  [][\A w \in W :
       (Leaves(w, "eval") /\ wpc'[w] = "sleep")
       => (/\ etag'[w] = etag[w]
           /\ md5'[w] = md5[w]
           /\ last_modified'[w] = IF resp[w].status = 200 /\ resp[w].lm # None
                                  THEN resp[w].lm
                                  ELSE last_modified[w])]_vars

\* ---- C15 ----
\* C15: "Watching" is sent at most once per watcher, by a watcher that is
\* Polling, on a wake-up later than ConfirmDelay after the loop was entered,
\* and before that wake-up's fetch; outside that call it is never sent, so a
\* watcher that is Done without it stays without it.
C15_WatchingOnceAfterDelay ==
  [][\A w \in W :
       /\ sent'[w].watching <= 1
       /\ wpc'[w] = "n_watching"
          => (/\ clock'[w] > ConfirmDelay
              /\ sent'[w].watching = 0
              /\ send_confirmation_at'[w] # <<>>)
       /\ sent'[w].watching # sent[w].watching
          => (/\ wpc[w] = "n_watching" /\ Polling(w)
              /\ wpc'[w] = "fetch"
              /\ polls'[w] = polls[w]
              /\ clock[w] > ConfirmDelay
              /\ send_confirmation_at'[w] = <<>>)
       /\ (Done(w) /\ sent[w].watching = 0) => sent'[w].watching = 0]_vars

\* a watcher sent "Watching" and has its second poll's response open
C15_Witness ==
  \E w \in Urls :
    /\ sent[w].watching = 1 /\ polls[w] = 2 /\ wpc[w] = "eval"
    /\ send_confirmation_at[w] = <<>>

\* ---- C16 ----
\* C16: with several watchers, a step that changes anything of one watcher
\* leaves the validators, the confirmation deadline and the position of every
\* other watcher as they were, and each watcher's validators are those of its
\* own baseline whatever the interleaving.
Kept(w) == <<Validators(w), send_confirmation_at[w], wpc[w]>>
OwnBaseline(w) ==
  /\ etag[w] \in {None, IF w = 1 THEN "a1" ELSE "a2"}
  /\ md5[w] \in {None, get_md5(IF w = 1 THEN "b0" ELSE "b1")}
  /\ last_modified[w] = None
C16_WatchersDoNotInterfere ==
  [][n > 1 =>
       /\ \A w \in W : \A v \in W \ {w} :
            Local(w)' # Local(w) => Kept(v)' = Kept(v)
       /\ \A w \in W : OwnBaseline(w)']_vars

\* both watchers have polled twice, the last answer a 304 for each, and both
\* are still polling with their own baseline validators and nothing sent
C16_Witness ==
  /\ n > 1 /\ ~exited
  /\ \A w \in Urls :
       /\ polls[w] = 2 /\ wpc[w] = "sleep" /\ resp[w].status = 304
       /\ sent[w] = NoSent
  /\ Validators(1) = <<"a1", None, "D0">>
  /\ Validators(2) = <<"a2", None, "D1">>

\* ---- C17 ----
\* C17: a 200 response whose ETag and Last-Modified are each absent or equal
\* to the baseline's (the values the request carries) and whose digest is the
\* baseline's is never taken for a change: the watcher goes back to sleep and
\* does not head for the "Site changed" notification. (Before such a poll
\* the watcher has seen only responses of this kind, 304s and error statuses:
\* any other response ends the loop.)
SameAsBaseline(w, r) ==
  /\ r.status = 200
  /\ r.etag \in {None, req[w].inm}
  /\ r.lm \in {None, req[w].ims}
  /\ get_md5(r.body) = md5[w]
C17_NoFalseChange ==
  [][\A w \in W :
       (Leaves(w, "eval") /\ SameAsBaseline(w, resp[w]))
       => (/\ ~changed'[w]
           /\ wpc'[w] = "sleep"
           /\ sent'[w].changed = 0)]_vars

\* ---- C18 ----
\* the lock is held exactly by the thread or handler that is inside the
\* with-block of notify()
LockHeldInsideNotify ==
  /\ \A w \in W :
       (notify_lock = Thread(w)) <=> (wpc[w] \in NotifySites /\ nstage[w] = "run")
  /\ \A k \in 1..Len(hstack) :
       (notify_lock = Handler(k)) <=> (hstack[k] = "run")
  /\ notify_lock \in {Free} \cup {Thread(w) : w \in W}
                    \cup {Handler(k) : k \in 1..Len(hstack)}

\* C18: notify_lock is held only by a thread that is inside notify(), and a
\* watcher that waits for the lock gets it (unless the process exits first),
\* every command run under the lock being one that returns.
C18_LockNeverLeftHeld ==
  /\ []LockHeldInsideNotify
  /\ \A w \in W : (nstage[w] = "wait") ~> (nstage[w] = "run" \/ exited)

\* ---- C19 ----
\* C19: a poll answered with an error status other than 304 calls notify()
\* for "Got HTTP error <code>. Continuing.", that call sends exactly one
\* notification and the watcher sleeps again, once per such poll; a 304 poll
\* and an Unchanged 200 poll send nothing.
C19_ErrorPollNotifiesOnce ==
  [][\A w \in W :
       /\ (Leaves(w, "fetch") /\ resp'[w] # NoResp
             /\ Raises(resp'[w]) = "HTTPError" /\ resp'[w].status # 304)
          => wpc'[w] = "n_error"
       /\ Leaves(w, "n_error")
          => (/\ sent'[w].error = sent[w].error + 1
              /\ wpc'[w] = "sleep")
       /\ sent'[w].error # sent[w].error => wpc[w] = "n_error"
       /\ (Leaves(w, "fetch") /\ resp'[w].status = 304)
          => (sent'[w] = sent[w] /\ wpc'[w] = "sleep")
       /\ (Leaves(w, "eval") /\ wpc'[w] = "sleep") => sent'[w] = sent[w]]_vars
====
